---- MODULE Spec2Model ----
(***************************************************************************)
(* A model of the emulator orchestrator of qiling (src/qiling/core.py):    *)
(* the memory map registry (insert_map_info), the hook bridge              *)
(* (catch_KeyboardInterrupt and the hook_* registrations), stop(), the     *)
(* patch set with run(), the word packing, dprint and the constructor;     *)
(* and of the Windows API hooks of src/qiling/os/windows/dlls/mscoree.py.  *)
(*                                                                         *)
(* The orchestrator's subsystems do not read each other's fields, so each  *)
(* is explored by a specification of its own (SpecMap, SpecMapAny,         *)
(* SpecHook, SpecRun, SpecPatch, SpecLib, SpecPack, SpecInit, SpecWin)     *)
(* over the same variables and the same Init; Spec is the orchestrator     *)
(* with every operation enabled.                                           *)
(***************************************************************************)
EXTENDS Integers, Sequences, FiniteSets, TLC

VARIABLES
    map_info,            \* self.map_info: the memory map registry
    hooks,               \* what self.uc.hook_add was handed: the engine's hook table
    thread_management,   \* self.thread_management: None, or a manager with its cur_thread
    threads,             \* each guest thread's stop state (td.stop(), td.stop_event)
    internal_exception,  \* self.internal_exception
    patch_bin,           \* self.patch_bin: the pending binary patches (addr, code)
    loadbase,            \* self.loadbase
    debugger,            \* self.debugger: None or the debugger spec string
    mem,                 \* guest memory, as self.uc.mem_write leaves it
    pc,                  \* "idle", or "runner" while run() is inside the runner
    run_trace,           \* the calls run() has made since it was last entered
    effects,             \* the calls the last stop() or engine callback made
    raised,              \* the exception the last operation let out to its caller
    patch_lib,           \* self.patch_lib: the pending library patches (addr, code, label)
    ql,                  \* the instance's configuration fields, as __init__ left them
    init_trace,          \* the steps the last __init__ went through
    result,              \* what the last pack, unpack or dprint call returned or logged
    PE_RUN,              \* ql.load_os.PE_RUN: the Windows loader's "image is running" flag
    exit_code            \* self.exit_code

mapVars == <<map_info>>
hookVars == <<hooks, thread_management, threads, internal_exception>>
runVars == <<patch_bin, loadbase, debugger, mem, pc, run_trace>>
obsVars == <<effects, raised>>
libVars == <<patch_lib>>
qlVars == <<ql, init_trace, result>>
winVars == <<PE_RUN, exit_code>>

vars == <<map_info, hooks, thread_management, threads, internal_exception,
          patch_bin, loadbase, debugger, mem, pc, run_trace, effects, raised,
          patch_lib, ql, init_trace, result, PE_RUN, exit_code>>

\* ---------------------------------------------------------------- bounds

\* Guest addresses are 0 .. MaxAddr.
MaxAddr == 3

\* An empty range is inserted only while the registry holds fewer than
\* MaxEmpty entries with start = end (each such insert may add an entry
\* without adding coverage, so the registry would grow without bound).
MaxEmpty == 1

\* The engine's hook table holds at most MaxHooks hooks.
MaxHooks == 1

\* At most MaxPatches binary patches are pending.
MaxPatches == 2

Addr == 0 .. MaxAddr

\* Python's None, where a field holds a string.
None == "None"

\* The stop events of qiling.os.linux.thread that core.py names.
THREAD_EVENT_EXIT_GROUP_EVENT == "THREAD_EVENT_EXIT_GROUP_EVENT"
THREAD_EVENT_UNEXECPT_EVENT == "THREAD_EVENT_UNEXECPT_EVENT"
StopEvents == {THREAD_EVENT_EXIT_GROUP_EVENT, THREAD_EVENT_UNEXECPT_EVENT}

\* A call of stop() that passes no stop_event.
NoArg == "<no argument>"

\* Guest threads of the thread manager.
Threads == {"t1", "t2"}

\* What a user callback may raise: an interrupt and an ordinary error.
UserErrors == {"KeyboardInterrupt", "ValueError"}

\* user_data values: None, a falsy value (the integer 0) and a truthy object.
UserData == {None, "0", "ud"}

\* Instruction classes handed to hook_insn.
UC_X86_INS_SYSCALL == "UC_X86_INS_SYSCALL"
InsnClasses == {UC_X86_INS_SYSCALL, "UC_X86_INS_IN"}

\* Patch bytes, and where the loader may have put the image.
Codes == {<<1>>, <<2, 1>>}
LoadBases == {0, 1}

\* self.debugger: None (the empty sequence here) or a spec string, held as its
\* ':'-separated parts.
NoDebugger == <<>>
DebuggerSpecs == {<<"gdb", "127.0.0.1", "9999">>, <<"127.0.0.1", "9999">>,
                  <<"qdb", "127.0.0.1", "9999">>}

\* A bytes value b'...' is held as <<"bytes", text>>; b'' is the default of
\* patch's file_name.  decode() gives the text, a str.
EmptyBytes == <<"bytes", "">>
FileNames == {<<"bytes", "a">>, <<"bytes", "b">>}
decode(b) == b[2]

\* Offsets of library patches, and the path the loader labels a mapped
\* library with: the library a is loaded at some point, b never is.
LibOffsets == {0, 1}
LibPaths == {"/lib/a"}

\* The endianness tags of qiling.const, and the state of an attribute that
\* was never assigned (reading it raises AttributeError).
QL_ENDIAN_EL == "QL_ENDIAN_EL"
QL_ENDIAN_EB == "QL_ENDIAN_EB"
Unset == "<unset>"

\* The architecture, OS and output tags of qiling.const.  QL_ENDINABLE holds
\* the architectures that run in either byte order.
QL_ARCH == {"QL_X86", "QL_X8664", "QL_ARM", "QL_ARM64", "QL_MIPS32"}
QL_ENDINABLE == {"QL_MIPS32", "QL_ARM"}
QL_OS == {"QL_LINUX", "QL_FREEBSD", "QL_MACOS", "QL_WINDOWS"}
QL_OUT_DEBUG == "debug"
QL_OUT_DUMP == "dump"
QL_OUTPUT == {"default", "off", "disasm", QL_OUT_DEBUG, QL_OUT_DUMP}

\* Values handed to the constructor.  A tag or option given as a Python str
\* is written "str:...", an enum tag by its name.
\* filename[0] and rootfs: paths, of which HostPaths exist on the host.
Filenames == {None, "/bin/ok", "/bin/gone"}
Rootfss == {None, "/rootfs", "/gone"}
HostPaths == {"/bin/ok", "/rootfs"}
Shellcoders == {None, "shellcode"}
OsTypes == {None, "str:Linux", "QL_BAD_OS"}
ArchTypes == {None, "str:x8664", "str:mips32", "QL_X86"}
Strs == {"str:Linux", "str:linux", "str:x8664", "str:mips32"}
Outputs == {None, "DEBUG", "default", "loud"}

\* verbose: an int, or a value of another type (a str).
IntVal(n) == [type |-> "int", val |-> n]
Verboses == {IntVal(0), IntVal(5), IntVal(99), IntVal(100), [type |-> "str", val |-> 5]}

\* What ql_checkostype finds in the image header: the architecture, the OS
\* and, for an architecture of either byte order, the byte order, which it
\* leaves in archendian; or nothing it knows.
Detected == {[arch |-> "QL_X86", ostype |-> "QL_LINUX", archendian |-> Unset],
             [arch |-> "QL_MIPS32", ostype |-> "QL_LINUX", archendian |-> QL_ENDIAN_EB],
             [arch |-> None, ostype |-> None, archendian |-> Unset]}

\* The level argument of dprint.
Levels == {0, 5}

\* The widths archbit takes.
ArchBits == {16, 32, 64}

\* Machine words handed to pack, and byte strings handed to unpack.
Words == {0, 1, 127, 256, 258, 66051, 16909060, 2130772483}
ByteStrings == {<<4, 3, 2, 1>>, <<8, 7, 6, 5, 0, 0, 0, 0>>}

\* Permission strings and provenance labels.  Both are Python strings, and
\* the coalescing pass compares a label with a permission string, so one
\* label that spells a permission string is included.
Perms == {"r-x", "rw-"}
Labels == {"a", "b", "rw-"}

\* ------------------------------------------------- memory map registry

\* A registry entry is the list [s, e, p, info].
Entry(s, e, p, info) == <<s, e, p, info>>

\* InsertLoopBody with the overlapped entry kept whole instead of cut to its
\* prefix [s, mem_s).
InsertLoopBody_PrefixNotCut(st, x, mem_s, mem_e, mem_p, mem_info) ==
    LET s == x[1]
        e == x[2]
        p == x[3]
        info == x[4]
        new == Entry(mem_s, mem_e, mem_p, mem_info)
    IN  IF e <= mem_s
        THEN [tmp |-> Append(st.tmp, Entry(s, e, p, info)), flag |-> st.flag]
        ELSE IF s >= mem_e
        THEN IF st.flag = 0
             THEN [tmp |-> st.tmp \o <<new, Entry(s, e, p, info)>>, flag |-> 1]
             ELSE [tmp |-> Append(st.tmp, Entry(s, e, p, info)), flag |-> st.flag]
        ELSE LET t1 == IF s < mem_s
                       THEN Append(st.tmp, Entry(s, e, mem_p, info))
                       ELSE st.tmp
                 t2 == IF st.flag = 0 THEN Append(t1, new) ELSE t1
                 t3 == IF e > mem_e
                       THEN Append(t2, Entry(mem_e, e, mem_p, info))
                       ELSE t2
             IN  [tmp |-> t3, flag |-> 1]

\* InsertLoopBody with the suffix [mem_e, e) of an overlapped entry dropped.
InsertLoopBody_SuffixDropped(st, x, mem_s, mem_e, mem_p, mem_info) ==
    LET s == x[1]
        e == x[2]
        p == x[3]
        info == x[4]
        new == Entry(mem_s, mem_e, mem_p, mem_info)
    IN  IF e <= mem_s
        THEN [tmp |-> Append(st.tmp, Entry(s, e, p, info)), flag |-> st.flag]
        ELSE IF s >= mem_e
        THEN IF st.flag = 0
             THEN [tmp |-> st.tmp \o <<new, Entry(s, e, p, info)>>, flag |-> 1]
             ELSE [tmp |-> Append(st.tmp, Entry(s, e, p, info)), flag |-> st.flag]
        ELSE LET t1 == IF s < mem_s
                       THEN Append(st.tmp, Entry(s, mem_s, mem_p, info))
                       ELSE st.tmp
                 t2 == IF st.flag = 0 THEN Append(t1, new) ELSE t1
             IN  [tmp |-> t2, flag |-> 1]

\* One iteration of the loop over the existing entries: st is
\* [tmp |-> tmp_map_info, flag |-> insert_flag], x the entry [s, e, p, info].
InsertLoopBody(st, x, mem_s, mem_e, mem_p, mem_info) ==
    LET s == x[1]
        e == x[2]
        p == x[3]
        info == x[4]
        new == Entry(mem_s, mem_e, mem_p, mem_info)
    IN  IF e <= mem_s
        THEN [tmp |-> Append(st.tmp, Entry(s, e, p, info)), flag |-> st.flag]
        ELSE IF s >= mem_e
        THEN IF st.flag = 0
             THEN [tmp |-> st.tmp \o <<new, Entry(s, e, p, info)>>, flag |-> 1]
             ELSE [tmp |-> Append(st.tmp, Entry(s, e, p, info)), flag |-> st.flag]
        ELSE LET t1 == IF s < mem_s
                       THEN Append(st.tmp, Entry(s, mem_s, mem_p, info))
                       ELSE st.tmp
                 t2 == IF st.flag = 0 THEN Append(t1, new) ELSE t1
                 t3 == IF e > mem_e
                       THEN Append(t2, Entry(mem_e, e, mem_p, info))
                       ELSE t2
             IN  [tmp |-> t3, flag |-> 1]

RECURSIVE InsertLoop(_, _, _, _, _, _)
InsertLoop(st, rest, mem_s, mem_e, mem_p, mem_info) ==
    IF rest = <<>>
    THEN st
    ELSE InsertLoop(InsertLoopBody(st, Head(rest), mem_s, mem_e, mem_p, mem_info),
                    Tail(rest), mem_s, mem_e, mem_p, mem_info)

\* tmp_map_info as it stands before the coalescing pass.
SplitPass(m, mem_s, mem_e, mem_p, mem_info) ==
    IF Len(m) = 0
    THEN <<Entry(mem_s, mem_e, mem_p, mem_info)>>
    ELSE LET st == InsertLoop([tmp |-> <<>>, flag |-> 0], m,
                              mem_s, mem_e, mem_p, mem_info)
         IN  IF st.flag = 0
             THEN Append(st.tmp, Entry(mem_s, mem_e, mem_p, mem_info))
             ELSE st.tmp

\* The test of the coalescing pass: the entry x starts where the last kept
\* entry ends, and x's label equals the last kept entry's element 2 (0-based),
\* which is its permission string.
CoalesceTest(last, x) == x[1] = last[2] /\ x[4] = last[3]

RECURSIVE CoalescePass(_, _)
CoalescePass(acc, rest) ==
    IF rest = <<>>
    THEN acc
    ELSE LET x == Head(rest)
             last == acc[Len(acc)]
         IN  IF CoalesceTest(last, x)
             THEN CoalescePass([acc EXCEPT ![Len(acc)][2] = x[2]], Tail(rest))
             ELSE CoalescePass(Append(acc, x), Tail(rest))

\* The registry after insert_map_info(mem_s, mem_e, mem_p, mem_info) on m.
insert_map_info(m, mem_s, mem_e, mem_p, mem_info) ==
    LET tmp == SplitPass(m, mem_s, mem_e, mem_p, mem_info)
    IN  CoalescePass(<<tmp[1]>>, Tail(tmp))

\* ---------------------------------------------------------------- stop()

\* self.thread_management is None.
NoThreadManagement == [active |-> FALSE, cur_thread |-> None]

\* The stop_event parameter of stop(), with its default.
StopEventParam(arg) == IF arg = NoArg THEN THREAD_EVENT_EXIT_GROUP_EVENT ELSE arg

\* stop() with the engine stopped before the current thread is marked.
stop_EngineFirst(tm, thr, arg) ==
    LET stop_event == StopEventParam(arg)
        td == tm.cur_thread
    IN  IF tm.active
        THEN IF td = None
             THEN [threads |-> thr, effects |-> <<>>, raised |-> "AttributeError"]
             ELSE [threads |-> [thr EXCEPT ![td] = [stopped |-> TRUE,
                                                    stop_event |-> stop_event]],
                   effects |-> << <<"uc.emu_stop">>,
                                  <<"td.stop", td>>,
                                  <<"td.stop_event", td, stop_event>> >>,
                   raised |-> None]
        ELSE [threads |-> thr, effects |-> << <<"uc.emu_stop">> >>, raised |-> None]

\* stop(stop_event) run on thread manager tm and thread states thr: the thread
\* states it leaves, the calls it made in order, and the exception it let out.
\* With a thread manager whose cur_thread is None, td.stop() is an attribute
\* access on None and raises AttributeError before anything else happens.
stop(tm, thr, arg) ==
    LET stop_event == StopEventParam(arg)
        td == tm.cur_thread
    IN  IF tm.active
        THEN IF td = None
             THEN [threads |-> thr, effects |-> <<>>, raised |-> "AttributeError"]
             ELSE [threads |-> [thr EXCEPT ![td] = [stopped |-> TRUE,
                                                    stop_event |-> stop_event]],
                   effects |-> << <<"td.stop", td>>,
                                  <<"td.stop_event", td, stop_event>>,
                                  <<"uc.emu_stop">> >>,
                   raised |-> None]
        ELSE [threads |-> thr, effects |-> << <<"uc.emu_stop">> >>, raised |-> None]

\* ----------------------------------------------------------- hook bridge

\* Python's truth value of a user_data value.
Truthy(v) == v \notin {None, "0"}

\* What a hook_* method hands to uc.hook_add: the engine's hook type, the
\* function the engine will call (fn: one of the _callback wrappers, named by
\* the event fields it forwards, or "raw" for the user's callback itself) and
\* the user_data packed with it; via names the method, for the claims.
HookRec(via, htype, fn, user_data) ==
    [via |-> via, htype |-> htype, fn |-> fn, user_data |-> user_data]

hook_code(user_data) == HookRec("hook_code", "UC_HOOK_CODE", "addr_size", user_data)
hook_intr(user_data) == HookRec("hook_intr", "UC_HOOK_INTR", "intno", user_data)
hook_block(user_data) == HookRec("hook_block", "UC_HOOK_BLOCK", "addr_size", user_data)
hook_mem_unmapped(user_data) ==
    HookRec("hook_mem_unmapped", "UC_HOOK_MEM_UNMAPPED", "mem", user_data)
hook_mem_read_invalid(user_data) ==
    HookRec("hook_mem_read_invalid", "UC_HOOK_MEM_READ_INVALID", "mem", user_data)
hook_mem_write_invalid(user_data) ==
    HookRec("hook_mem_write_invalid", "UC_HOOK_MEM_WRITE_INVALID", "mem", user_data)
hook_mem_fetch_invalid(user_data) ==
    HookRec("hook_mem_fetch_invalid", "UC_HOOK_MEM_FETCH_INVALID", "mem", user_data)
hook_mem_invalid(user_data) ==
    HookRec("hook_mem_invalid", "UC_HOOK_MEM_VALID", "mem", user_data)
hook_address(user_data) == HookRec("hook_address", "UC_HOOK_CODE", "none", user_data)
hook_mem_read(user_data) == HookRec("hook_mem_read", "UC_HOOK_MEM_READ", "mem", user_data)
hook_mem_write(user_data) == HookRec("hook_mem_write", "UC_HOOK_MEM_WRITE", "mem", user_data)
hook_mem_fetch(user_data) == HookRec("hook_mem_fetch", "UC_HOOK_MEM_FETCH", "mem", user_data)
hook_insn(arg1, user_data) ==
    IF arg1 = UC_X86_INS_SYSCALL
    THEN HookRec("hook_insn", "UC_HOOK_INSN", "none", user_data)
    ELSE HookRec("hook_insn", "UC_HOOK_INSN", "raw", user_data)

\* What the engine reports to hooks: an instruction or a block about to
\* run, an interrupt, an instruction of a hooked class, and a memory access
\* (read, write, fetch) that is valid, hits unmapped memory or is refused by
\* the page's protection.
ValidEvents == {"read", "write", "fetch"}
UnmappedEvents == {"read_unmapped", "write_unmapped", "fetch_unmapped"}
ProtEvents == {"read_prot", "write_prot", "fetch_prot"}
EngineEvents ==
    {"code", "block", "intr", "insn"} \cup ValidEvents \cup UnmappedEvents \cup ProtEvents

\* The events on which the engine calls a hook of type htype (the unicorn
\* hook types core.py passes to uc.hook_add).
Fires(htype) ==
    CASE htype = "UC_HOOK_CODE" -> {"code"}
      [] htype = "UC_HOOK_BLOCK" -> {"block"}
      [] htype = "UC_HOOK_INTR" -> {"intr"}
      [] htype = "UC_HOOK_INSN" -> {"insn"}
      [] htype = "UC_HOOK_MEM_READ" -> {"read"}
      [] htype = "UC_HOOK_MEM_WRITE" -> {"write"}
      [] htype = "UC_HOOK_MEM_FETCH" -> {"fetch"}
      [] htype = "UC_HOOK_MEM_VALID" -> ValidEvents
      [] htype = "UC_HOOK_MEM_UNMAPPED" -> UnmappedEvents
      [] htype = "UC_HOOK_MEM_READ_INVALID" -> {"read_unmapped", "read_prot"}
      [] htype = "UC_HOOK_MEM_WRITE_INVALID" -> {"write_unmapped", "write_prot"}
      [] htype = "UC_HOOK_MEM_FETCH_INVALID" -> {"fetch_unmapped", "fetch_prot"}
      [] htype = "UC_HOOK_MEM_INVALID" -> UnmappedEvents \cup ProtEvents
      [] OTHER -> {}

\* The hooks the registration methods can hand to the engine.
HookRecs ==
    {hook_code(u) : u \in UserData} \cup {hook_intr(u) : u \in UserData}
    \cup {hook_block(u) : u \in UserData} \cup {hook_mem_unmapped(u) : u \in UserData}
    \cup {hook_mem_read_invalid(u) : u \in UserData}
    \cup {hook_mem_write_invalid(u) : u \in UserData}
    \cup {hook_mem_fetch_invalid(u) : u \in UserData}
    \cup {hook_mem_invalid(u) : u \in UserData} \cup {hook_address(u) : u \in UserData}
    \cup {hook_mem_read(u) : u \in UserData} \cup {hook_mem_write(u) : u \in UserData}
    \cup {hook_mem_fetch(u) : u \in UserData}
    \cup {hook_insn(c, u) : c \in InsnClasses, u \in UserData}

\* The arguments a _callback wrapper calls the user callback with: the
\* emulator, the event fields of its kind, and user_data if it is truthy.
\* A raw callback is called by the engine itself, with the engine handle and
\* the user_data it was registered with.
CallbackArgs(h) ==
    IF h.fn = "raw"
    THEN <<"uc", h.user_data>>
    ELSE LET fields == CASE h.fn = "addr_size" -> <<"addr", "size">>
                         [] h.fn = "intno" -> <<"intno">>
                         [] h.fn = "mem" -> <<"addr", "size", "value">>
                         [] OTHER -> <<>>
         IN  IF Truthy(h.user_data)
             THEN <<"ql">> \o fields \o <<h.user_data>>
             ELSE <<"ql">> \o fields

\* What the user's callback does when called: return, raise an error, or call
\* ql.stop() and return.
UserActs ==
    {[act |-> "return", exc |-> None], [act |-> "stop", exc |-> None]}
    \cup {[act |-> "raise", exc |-> e] : e \in UserErrors}

\* The user's callback run: thread states, calls made, exception raised.
UserCallback(b, tm, thr) ==
    CASE b.act = "raise" -> [threads |-> thr, effects |-> <<>>, raised |-> b.exc]
      [] b.act = "stop" -> stop(tm, thr, NoArg)
      [] OTHER -> [threads |-> thr, effects |-> <<>>, raised |-> None]

\* catch_KeyboardInterrupt's wrapper calling ql.stop() without the
\* THREAD_EVENT_UNEXECPT_EVENT argument.
catch_KeyboardInterrupt_DefaultEvent(func, tm, ie) ==
    IF func.raised = None
    THEN [threads |-> func.threads, effects |-> func.effects, raised |-> None,
          internal_exception |-> ie]
    ELSE LET s == stop(tm, func.threads, NoArg)
         IN  IF s.raised # None
             THEN [threads |-> s.threads, effects |-> func.effects \o s.effects,
                   raised |-> s.raised, internal_exception |-> ie]
             ELSE [threads |-> s.threads, effects |-> func.effects \o s.effects,
                   raised |-> None, internal_exception |-> func.raised]

\* catch_KeyboardInterrupt's wrapper around func: any exception e of func is
\* caught, ql.stop(THREAD_EVENT_UNEXECPT_EVENT) is called and then e is stored
\* in ql.internal_exception; an exception of ql.stop itself is not caught.
catch_KeyboardInterrupt(func, tm, ie) ==
    IF func.raised = None
    THEN [threads |-> func.threads, effects |-> func.effects, raised |-> None,
          internal_exception |-> ie]
    ELSE LET s == stop(tm, func.threads, THREAD_EVENT_UNEXECPT_EVENT)
         IN  IF s.raised # None
             THEN [threads |-> s.threads, effects |-> func.effects \o s.effects,
                   raised |-> s.raised, internal_exception |-> ie]
             ELSE [threads |-> s.threads, effects |-> func.effects \o s.effects,
                   raised |-> None, internal_exception |-> func.raised]

\* The engine calls the function registered as hook h, whose user callback
\* does b: a _callback wrapper runs under catch_KeyboardInterrupt, a raw
\* callback runs bare.
EngineCallback(h, b, tm, thr, ie) ==
    LET u == UserCallback(b, tm, thr)
        called == [u EXCEPT !.effects = << <<"callback">> \o CallbackArgs(h) >> \o u.effects]
    IN  IF h.fn = "raw"
        THEN [threads |-> called.threads, effects |-> called.effects,
              raised |-> called.raised, internal_exception |-> ie]
        ELSE catch_KeyboardInterrupt(called, tm, ie)

\* -------------------------------------------------------- word packing

\* struct.pack with a little-endian layout ('Q' and 'I' on the little-endian
\* host the emulator runs on): n bytes of x, least significant first.
RECURSIVE BytesLE(_, _)
BytesLE(x, n) ==
    IF n = 0 THEN <<>> ELSE <<x % 256>> \o BytesLE(x \div 256, n - 1)

\* struct.pack with '>': n bytes of x, most significant first.
RECURSIVE BytesBE(_, _)
BytesBE(x, n) ==
    IF n = 0 THEN <<>> ELSE Append(BytesBE(x \div 256, n - 1), x % 256)

\* struct.unpack of little-endian and of big-endian bytes.
RECURSIVE WordLE(_)
WordLE(b) ==
    IF b = <<>> THEN 0 ELSE Head(b) + 256 * WordLE(Tail(b))

RECURSIVE WordBE(_)
WordBE(b) ==
    IF b = <<>> THEN 0 ELSE b[Len(b)] + 256 * WordBE(SubSeq(b, 1, Len(b) - 1))

\* The packing functions return [val, raised].
Returns(v) == [val |-> v, raised |-> None]
Raises(e) == [val |-> None, raised |-> e]

pack64(q, x) == Returns(BytesLE(x, 8))

\* struct.unpack wants exactly the bytes of the format.
unpack64(q, b) ==
    IF Len(b) # 8 THEN Raises("struct.error") ELSE Returns(WordLE(b))

pack32(q, x) ==
    IF q.archendian = Unset THEN Raises("AttributeError")
    ELSE IF q.archendian = QL_ENDIAN_EB THEN Returns(BytesBE(x, 4))
    ELSE Returns(BytesLE(x, 4))

\* unpack32 reading the bytes in host order whatever archendian is.
unpack32_HostOrder(q, b) ==
    IF q.archendian = Unset THEN Raises("AttributeError")
    ELSE IF Len(b) # 4 THEN Raises("struct.error")
    ELSE Returns(WordLE(b))

unpack32(q, b) ==
    IF q.archendian = Unset THEN Raises("AttributeError")
    ELSE IF Len(b) # 4 THEN Raises("struct.error")
    ELSE IF q.archendian = QL_ENDIAN_EB THEN Returns(WordBE(b))
    ELSE Returns(WordLE(b))

\* pack and unpack: a bare raise with no exception being handled is a
\* RuntimeError.
pack(q, x) ==
    IF q.archbit = 64 THEN pack64(q, x)
    ELSE IF q.archbit = 32 THEN pack32(q, x)
    ELSE Raises("RuntimeError")

unpack(q, b) ==
    IF q.archbit = 64 THEN unpack64(q, b)
    ELSE IF q.archbit = 32 THEN unpack32(q, b)
    ELSE Raises("RuntimeError")

\* ---------------------------------------------------------- constructor

\* str.lower().
lower(s) ==
    IF s = "str:Linux" THEN "str:linux"
    ELSE IF s = "DEBUG" THEN "debug"
    ELSE s

\* ostype_convert and arch_convert of qiling.utils: the tag of a canonical
\* string, None for any other string.
ostype_convert(s) ==
    IF s = "str:linux" THEN "QL_LINUX" ELSE None

arch_convert(s) ==
    IF s = "str:x8664" THEN "QL_X8664"
    ELSE IF s = "str:mips32" THEN "QL_MIPS32"
    ELSE None

ql_is_valid_arch(arch) == arch \in QL_ARCH

ql_get_arch_bits(arch) ==
    IF arch \in {"QL_X8664", "QL_ARM64"} THEN 64 ELSE 32

\* os.path.exists.
os_path_exists(path) == path \in HostPaths

\* The verbose/output test of __init__ and dprint, as Python parses it:
\* A or (B and (C and D)).
VerboseRejected(verbose, output) ==
    \/ verbose.type # "int"
    \/ /\ verbose.val > 99
       /\ verbose.val > 0
       /\ output \notin {QL_OUT_DEBUG, QL_OUT_DUMP}

\* The instance before any construction.
NoInstance ==
    [stage |-> "none", filename |-> None, rootfs |-> None, shellcoder |-> None,
     bigendian |-> FALSE, archtype |-> None, ostype |-> None, arch |-> "",
     archbit |-> 0, archendian |-> Unset, output |-> None, verbose |-> IntVal(0),
     path |-> ""]

\* __init__(filename, rootfs, shellcoder, ostype, archtype, bigendian,
\* output, verbose) with det what ql_checkostype would return: the fields
\* as the constructor leaves them (stage "ready", or "failed" where it
\* raised), the exception and the steps it went through.
Qiling_init(a, det) ==
    LET q0 == [NoInstance EXCEPT !.filename = a.filename, !.rootfs = a.rootfs,
                                 !.shellcoder = a.shellcoder, !.bigendian = a.bigendian,
                                 !.archtype = a.archtype, !.output = a.output,
                                 !.verbose = a.verbose, !.ostype = a.ostype]
        \* lines 129-135
        q1 == [q0 EXCEPT !.ostype = IF a.ostype # None /\ a.ostype \in Strs
                                    THEN ostype_convert(lower(a.ostype))
                                    ELSE a.ostype,
                         !.arch = IF a.shellcoder # None /\ a.archtype # None
                                      /\ a.archtype \in Strs
                                  THEN arch_convert(a.archtype)
                                  ELSE ""]
        Fail(q, e, tr) == [ql |-> [q EXCEPT !.stage = "failed"], raised |-> e, trace |-> tr]
        \* lines 191-223
        Rest(q, tr) ==
            IF ~ql_is_valid_arch(q.arch)
            THEN Fail(q, "QlErrorArch", Append(tr, "ql_is_valid_arch"))
            ELSE
            LET tr1 == tr \o <<"ql_is_valid_arch", "arch_func">>
                e1 == IF q.arch \notin QL_ENDINABLE THEN QL_ENDIAN_EL ELSE q.archendian
                e2 == IF q.shellcoder # None /\ q.arch \in QL_ENDINABLE /\ q.bigendian = TRUE
                      THEN QL_ENDIAN_EB ELSE e1
                q2 == [q EXCEPT !.archbit = ql_get_arch_bits(q.arch), !.archendian = e2]
            IN  IF q2.ostype \notin QL_OS
                THEN Fail(q2, "QlErrorOsType", tr1)
                ELSE
                LET q3 == IF q2.output # None
                          THEN [q2 EXCEPT !.output = lower(q2.output)]
                          ELSE q2
                IN  IF q3.output # None /\ q3.output \notin QL_OUTPUT
                    THEN Fail(q3, "QlErrorOutput", tr1)
                    ELSE IF VerboseRejected(q3.verbose, q3.output)
                    THEN Fail(q3, "QlErrorOutput", tr1)
                    ELSE [ql |-> [q3 EXCEPT !.stage = "ready"], raised |-> None,
                          trace |-> Append(tr1, IF q3.shellcoder # None
                                                THEN "shellcode" ELSE "load_exec")]
    IN  \* lines 137-146
        IF q1.rootfs # None /\ q1.shellcoder = None
        THEN IF q1.filename = None
             THEN Fail(q1, "TypeError", <<>>)
             ELSE IF os_path_exists(q1.filename) /\ os_path_exists(q1.rootfs)
             THEN IF q1.ostype = None \/ q1.arch = None
                  THEN Rest([q1 EXCEPT !.path = q1.filename, !.arch = det.arch,
                                       !.ostype = det.ostype,
                                       !.archendian = det.archendian],
                            <<"ql_checkostype">>)
                  ELSE Rest([q1 EXCEPT !.path = q1.filename], <<>>)
             ELSE Fail(q1, "QlErrorFileNotFound", <<>>)
        ELSE Rest(q1, <<>>)

\* The constructor's arguments.
CtorArgs ==
    [filename : Filenames, rootfs : Rootfss, shellcoder : Shellcoders,
     ostype : OsTypes, archtype : ArchTypes, bigendian : BOOLEAN,
     output : Outputs, verbose : Verboses]

\* The instance the other subsystems start from: shellcode mode, x86-64,
\* Linux.
DefaultArgs ==
    [filename |-> None, rootfs |-> None, shellcoder |-> "shellcode",
     ostype |-> "str:Linux", archtype |-> "str:x8664", bigendian |-> FALSE,
     output |-> None, verbose |-> IntVal(0)]

DefaultQl == Qiling_init(DefaultArgs, CHOOSE d \in Detected : d.arch = None)

\* dprint(level, ...): [raised, val], val the call made on the log sink.
dprint(q, level) ==
    IF VerboseRejected(q.verbose, q.output)
    THEN Raises("QlErrorOutput")
    ELSE IF q.verbose.val >= level
    THEN IF q.output = QL_OUT_DEBUG THEN Returns("log.debug(args)")
         ELSE IF q.output = QL_OUT_DUMP THEN Returns("log.debug(str(args[0]))")
         ELSE Returns(None)
    ELSE Returns(None)

\* ------------------------------------------------------------- patches

\* uc.mem_write(addr, code) on memory m: unmapped addresses (beyond MaxAddr)
\* make the engine raise UcError and write nothing.
MemWritable(addr, code) == addr >= 0 /\ addr + Len(code) - 1 <= MaxAddr

mem_write(m, addr, code) ==
    [a \in Addr |-> IF addr <= a /\ a < addr + Len(code) THEN code[a - addr + 1] ELSE m[a]]

\* __enable_bin_patch writing each patch at addr instead of loadbase + addr.
RECURSIVE enable_bin_patch_NoBase(_, _, _)
enable_bin_patch_NoBase(st, patches, base) ==
    IF patches = <<>> \/ st.raised # None
    THEN st
    ELSE LET addr == Head(patches)[1]
             code == Head(patches)[2]
         IN  IF MemWritable(addr, code)
             THEN enable_bin_patch_NoBase(
                      [mem |-> mem_write(st.mem, addr, code),
                       trace |-> Append(st.trace, <<"uc.mem_write", addr, code>>),
                       raised |-> None],
                      Tail(patches), base)
             ELSE [st EXCEPT !.raised = "UcError",
                             !.trace = Append(st.trace, <<"uc.mem_write", addr, code>>)]

\* __enable_bin_patch walking the list from its end: the patch submitted
\* last is written first.
RECURSIVE enable_bin_patch_LastFirst(_, _, _)
enable_bin_patch_LastFirst(st, patches, base) ==
    IF patches = <<>> \/ st.raised # None
    THEN st
    ELSE LET addr == patches[Len(patches)][1]
             code == patches[Len(patches)][2]
         IN  IF MemWritable(base + addr, code)
             THEN enable_bin_patch_LastFirst(
                      [mem |-> mem_write(st.mem, base + addr, code),
                       trace |-> Append(st.trace, <<"uc.mem_write", base + addr, code>>),
                       raised |-> None],
                      SubSeq(patches, 1, Len(patches) - 1), base)
             ELSE [st EXCEPT !.raised = "UcError",
                             !.trace = Append(st.trace, <<"uc.mem_write", base + addr, code>>)]

\* __enable_bin_patch: the pending patches written in list order at
\* loadbase + addr; st is [mem, trace, raised].
RECURSIVE enable_bin_patch(_, _, _)
enable_bin_patch(st, patches, base) ==
    IF patches = <<>> \/ st.raised # None
    THEN st
    ELSE LET addr == Head(patches)[1]
             code == Head(patches)[2]
         IN  IF MemWritable(base + addr, code)
             THEN enable_bin_patch(
                      [mem |-> mem_write(st.mem, base + addr, code),
                       trace |-> Append(st.trace, <<"uc.mem_write", base + addr, code>>),
                       raised |-> None],
                      Tail(patches), base)
             ELSE [st EXCEPT !.raised = "UcError",
                             !.trace = Append(st.trace, <<"uc.mem_write", base + addr, code>>)]

\* patch(addr, code, file_name) on the two pending lists.
\* A labelled patch put on the binary list, the label dropped.
patch_AlwaysBin(pb, pl, addr, code, file_name) ==
    [patch_bin |-> Append(pb, <<addr, code>>), patch_lib |-> pl]

patch(pb, pl, addr, code, file_name) ==
    IF file_name = EmptyBytes
    THEN [patch_bin |-> Append(pb, <<addr, code>>), patch_lib |-> pl]
    ELSE [patch_bin |-> pb, patch_lib |-> Append(pl, <<addr, code, decode(file_name)>>)]

\* os.path.split(info)[1]: what follows the last '/' of a label.
os_path_split_tail(info) ==
    IF info = "/lib/a" THEN "a" ELSE info

\* __get_lib_base: the start of the first entry whose label's file name is
\* filename, and -1 when there is none.
RECURSIVE get_lib_base(_, _)
get_lib_base(m, filename) ==
    IF m = <<>> THEN -1
    ELSE IF os_path_split_tail(Head(m)[4]) = filename THEN Head(m)[1]
    ELSE get_lib_base(Tail(m), filename)

\* enable_lib_patch: each pending library patch written, in list order, at
\* __get_lib_base(filename) + addr; st is [mem, trace, raised].
RECURSIVE enable_lib_patch(_, _, _)
enable_lib_patch(st, patches, m) ==
    IF patches = <<>> \/ st.raised # None
    THEN st
    ELSE LET addr == Head(patches)[1]
             code == Head(patches)[2]
             base == get_lib_base(m, Head(patches)[3])
         IN  IF MemWritable(base + addr, code)
             THEN enable_lib_patch(
                      [mem |-> mem_write(st.mem, base + addr, code),
                       trace |-> Append(st.trace, <<"uc.mem_write", base + addr, code>>),
                       raised |-> None],
                      Tail(patches), m)
             ELSE [st EXCEPT !.raised = "UcError",
                             !.trace = Append(st.trace, <<"uc.mem_write", base + addr, code>>)]

\* The debugger kinds debugger_convert knows (qiling.debugger.utils).
QL_DEBUGGER == {"gdb", "idapro"}

\* run()'s reading of self.debugger: three parts are kind, ip, port; two parts
\* are ip, port with kind gdb; anything else fails to unpack (ValueError).
DebuggerKind(spec) ==
    IF Len(spec) = 3 THEN spec[1]
    ELSE IF Len(spec) = 2 THEN "gdb"
    ELSE "ValueError"

\* ------------------------------------------------ Windows API hooks (mscoree)

\* The exitCode values a guest passes to CorExitProcess.
ExitCodes == {0, 1}

\* hook_CorExitProcess calling ql.stop() where the code calls the engine's
\* stop primitive.
hook_CorExitProcess_ViaStop(tm, thr, ec, params) ==
    LET s == stop(tm, thr, NoArg)
    IN  [threads |-> s.threads, exit_code |-> ec, PE_RUN |-> FALSE,
         effects |-> s.effects, raised |-> s.raised]

\* hook_CorExitProcess(ql, address, params): ql.uc.emu_stop() is called and
\* ql.load_os.PE_RUN is set to False; params["exitCode"] is not read.
hook_CorExitProcess(tm, thr, ec, params) ==
    [threads |-> thr, exit_code |-> ec, PE_RUN |-> FALSE,
     effects |-> << <<"uc.emu_stop">> >>, raised |-> None]

\* hook__CorExeMain(ql, address, params): pass.
hook__CorExeMain(tm, thr, ec, pe, params) ==
    [threads |-> thr, exit_code |-> ec, PE_RUN |-> pe, effects |-> <<>>, raised |-> None]

\* ------------------------------------------------------------- actions

\* No pack, unpack or dprint call was made yet.
NoResult == [op |-> None, arg |-> None, val |-> None, raised |-> None]

\* The fields outside the instance's configuration, as __init__ leaves them.
InitFields ==
    /\ map_info = <<>>
    /\ hooks = {}
    /\ thread_management = NoThreadManagement
    /\ threads = [t \in Threads |-> [stopped |-> FALSE, stop_event |-> None]]
    /\ internal_exception = None
    /\ patch_bin = <<>>
    /\ loadbase = 0
    /\ debugger = NoDebugger
    /\ mem = [a \in Addr |-> 0]
    /\ pc = "idle"
    /\ run_trace = <<>>
    /\ effects = <<>>
    /\ raised = None
    /\ patch_lib = <<>>
    /\ result = NoResult
    /\ PE_RUN = TRUE
    /\ exit_code = 0

Init ==
    /\ InitFields
    /\ ql = DefaultQl.ql
    /\ init_trace = DefaultQl.trace

\* The program before it constructs the emulator.
InitCtor ==
    /\ InitFields
    /\ ql = NoInstance
    /\ init_trace = <<>>

\* An instance with archbit and archendian as the constructor, the loader
\* or the embedding program may have left them.
InitPack ==
    /\ InitFields
    /\ \E b \in ArchBits, e \in {QL_ENDIAN_EL, QL_ENDIAN_EB, Unset} :
           ql = [DefaultQl.ql EXCEPT !.archbit = b, !.archendian = e]
    /\ init_trace = DefaultQl.trace

\* insert_map_info called with a non-empty range.
InsertMapInfo ==
    \E mem_s \in Addr, mem_e \in Addr, mem_p \in Perms, mem_info \in Labels :
        /\ mem_s < mem_e
        /\ map_info' = insert_map_info(map_info, mem_s, mem_e, mem_p, mem_info)
        /\ UNCHANGED <<hookVars, runVars, obsVars, libVars, qlVars, winVars>>

\* insert_map_info called with an empty range (mem_s = mem_e).
InsertEmptyRange ==
    \E mem_s \in Addr, mem_p \in Perms, mem_info \in Labels :
        /\ Cardinality({i \in 1 .. Len(map_info) : map_info[i][1] = map_info[i][2]}) < MaxEmpty
        /\ map_info' = insert_map_info(map_info, mem_s, mem_s, mem_p, mem_info)
        /\ UNCHANGED <<hookVars, runVars, obsVars, libVars, qlVars, winVars>>

\* uc.hook_add: the hook joins the engine's hook table.
HookAdd(h) ==
    /\ Cardinality(hooks) < MaxHooks
    /\ hooks' = hooks \cup {h}
    /\ UNCHANGED <<mapVars, thread_management, threads, internal_exception,
                   runVars, obsVars, libVars, qlVars, winVars>>

HookCode == \E u \in UserData : HookAdd(hook_code(u))
HookIntr == \E u \in UserData : HookAdd(hook_intr(u))
HookBlock == \E u \in UserData : HookAdd(hook_block(u))
HookMemUnmapped == \E u \in UserData : HookAdd(hook_mem_unmapped(u))
HookMemReadInvalid == \E u \in UserData : HookAdd(hook_mem_read_invalid(u))
HookMemWriteInvalid == \E u \in UserData : HookAdd(hook_mem_write_invalid(u))
HookMemFetchInvalid == \E u \in UserData : HookAdd(hook_mem_fetch_invalid(u))
HookMemInvalid == \E u \in UserData : HookAdd(hook_mem_invalid(u))
HookAddress == \E u \in UserData : HookAdd(hook_address(u))
HookMemRead == \E u \in UserData : HookAdd(hook_mem_read(u))
HookMemWrite == \E u \in UserData : HookAdd(hook_mem_write(u))
HookMemFetch == \E u \in UserData : HookAdd(hook_mem_fetch(u))
HookInsn == \E c \in InsnClasses, u \in UserData : HookAdd(hook_insn(c, u))

\* While the runner drives the engine, an event of those hook h is
\* registered for occurs: the engine calls the function of h, and the user's
\* callback does b.
FireHook(h, b) ==
    /\ pc = "runner"
    /\ h \in hooks
    /\ Fires(h.htype) # {}
    /\ LET r == EngineCallback(h, b, thread_management, threads, internal_exception)
       IN  /\ threads' = r.threads
           /\ internal_exception' = r.internal_exception
           /\ effects' = r.effects
           /\ raised' = r.raised
    /\ UNCHANGED <<mapVars, hooks, thread_management, runVars, libVars, qlVars, winVars>>

EngineFiresHook == \E h \in hooks, b \in UserActs : FireHook(h, b)

\* stop() called by the embedding program, with or without a stop_event.
Stop(arg) ==
    /\ LET r == stop(thread_management, threads, arg)
       IN  /\ threads' = r.threads
           /\ effects' = r.effects
           /\ raised' = r.raised
    /\ UNCHANGED <<mapVars, hooks, thread_management, internal_exception, runVars, libVars, qlVars, winVars>>

StopCalled == \E arg \in StopEvents \cup {NoArg} : Stop(arg)

\* The thread manager of the OS personality: created with no current thread,
\* it then makes one of the guest threads the current one.  (Later switches
\* between threads are left out: stop() and the bridge read cur_thread only.)
ThreadManagerCreated ==
    /\ ~thread_management.active
    /\ thread_management' = [active |-> TRUE, cur_thread |-> None]
    /\ UNCHANGED <<mapVars, hooks, threads, internal_exception, runVars, obsVars, libVars, qlVars, winVars>>

ThreadScheduled ==
    /\ thread_management.active
    /\ \E t \in Threads :
           /\ thread_management.cur_thread = None
           /\ thread_management' = [active |-> TRUE, cur_thread |-> t]
    /\ UNCHANGED <<mapVars, hooks, threads, internal_exception, runVars, obsVars, libVars, qlVars, winVars>>

\* patch(addr, code) with file_name left at b'': a pending binary patch.
PatchBin ==
    /\ Len(patch_bin) < MaxPatches
    /\ \E addr \in Addr, code \in Codes :
           LET r == patch(patch_bin, patch_lib, addr, code, EmptyBytes)
           IN  /\ patch_bin' = r.patch_bin
               /\ patch_lib' = r.patch_lib
    /\ UNCHANGED <<mapVars, hookVars, loadbase, debugger, mem, pc, run_trace, obsVars, qlVars, winVars>>

\* patch(addr, code, file_name) with a file name: a pending library patch.
PatchLib ==
    /\ Len(patch_lib) < MaxPatches
    /\ \E addr \in LibOffsets, code \in Codes, file_name \in FileNames :
           LET r == patch(patch_bin, patch_lib, addr, code, file_name)
           IN  /\ patch_bin' = r.patch_bin
               /\ patch_lib' = r.patch_lib
    /\ UNCHANGED <<mapVars, hookVars, loadbase, debugger, mem, pc, run_trace, obsVars, qlVars, winVars>>

\* The loader maps a library and records it: insert_map_info with the
\* library's path as the label.  A library is mapped once.
LibraryMapped ==
    \E mem_s \in Addr, mem_e \in Addr, mem_p \in Perms, mem_info \in LibPaths :
        /\ mem_s < mem_e
        /\ \A i \in 1 .. Len(map_info) : map_info[i][4] # mem_info
        /\ map_info' = insert_map_info(map_info, mem_s, mem_e, mem_p, mem_info)
        /\ UNCHANGED <<hookVars, runVars, obsVars, libVars, qlVars, winVars>>

\* enable_lib_patch(), as the loader calls it once libraries are mapped.
EnableLibPatch ==
    /\ LET r == enable_lib_patch([mem |-> mem, trace |-> <<>>, raised |-> None],
                                 patch_lib, map_info)
       IN  /\ mem' = r.mem
           /\ effects' = r.trace
           /\ raised' = r.raised
    /\ UNCHANGED <<mapVars, hookVars, patch_bin, loadbase, debugger, pc, run_trace,
                   libVars, qlVars, winVars>>

\* The loader of the OS personality maps the image and sets ql.loadbase.
ImageLoaded ==
    /\ pc = "idle"
    /\ \E b \in LoadBases :
           /\ b # loadbase
           /\ loadbase' = b
    /\ UNCHANGED <<mapVars, hookVars, patch_bin, debugger, mem, pc, run_trace, obsVars, libVars, qlVars, winVars>>

\* The embedding program sets ql.debugger.
SetDebugger ==
    /\ pc = "idle"
    /\ \E d \in DebuggerSpecs \cup {NoDebugger} :
           /\ d # debugger
           /\ debugger' = d
    /\ UNCHANGED <<mapVars, hookVars, patch_bin, loadbase, mem, pc, run_trace, obsVars, libVars, qlVars, winVars>>

\* The embedding program constructs the emulator.
Construct ==
    /\ ql.stage = "none"
    /\ \E a \in CtorArgs, det \in Detected :
           LET r == Qiling_init(a, det)
           IN  /\ ql' = r.ql
               /\ raised' = r.raised
               /\ init_trace' = r.trace
    /\ UNCHANGED <<mapVars, hookVars, runVars, effects, libVars, result, winVars>>

\* dprint(level, ...) on a constructed instance.
Dprint ==
    /\ ql.stage = "ready"
    /\ \E level \in Levels :
           LET r == dprint(ql, level)
           IN  /\ result' = [op |-> "dprint", arg |-> level, val |-> r.val,
                             raised |-> r.raised]
               /\ raised' = r.raised
    /\ UNCHANGED <<mapVars, hookVars, runVars, effects, libVars, ql, init_trace, winVars>>

\* pack(x).
Pack ==
    /\ ql.stage = "ready"
    /\ \E x \in Words :
           LET r == pack(ql, x)
           IN  /\ result' = [op |-> "pack", arg |-> x, val |-> r.val, raised |-> r.raised]
               /\ raised' = r.raised
    /\ UNCHANGED <<mapVars, hookVars, runVars, effects, libVars, ql, init_trace, winVars>>

\* unpack(b), b the bytes the last pack returned; arg keeps the word that
\* was packed.
Unpack ==
    /\ ql.stage = "ready"
    /\ result.op = "pack"
    /\ result.raised = None
    /\ LET r == unpack(ql, result.val)
       IN  /\ result' = [op |-> "unpack", arg |-> result.arg, val |-> r.val,
                         raised |-> r.raised]
           /\ raised' = r.raised
    /\ UNCHANGED <<mapVars, hookVars, runVars, effects, libVars, ql, init_trace, winVars>>

\* unpack(b) on bytes that did not come from pack.
UnpackBytes ==
    /\ ql.stage = "ready"
    /\ \E b \in ByteStrings :
           LET r == unpack(ql, b)
           IN  /\ result' = [op |-> "unpack_bytes", arg |-> b, val |-> r.val,
                             raised |-> r.raised]
               /\ raised' = r.raised
    /\ UNCHANGED <<mapVars, hookVars, runVars, effects, libVars, ql, init_trace, winVars>>

\* run() up to the call of the runner: the debugger bridge is started if a
\* debugger spec is set (dbg is what ql_debugger does: "ok", or
\* "KeyboardInterrupt"), the pending binary patches are written, and the
\* runner is invoked.
RunStart(dbg) ==
    /\ pc = "idle"
    /\ LET kind == DebuggerKind(debugger)
           d == IF debugger = NoDebugger
                THEN [trace |-> <<>>, raised |-> None]
                ELSE IF kind = "ValueError"
                THEN [trace |-> <<>>, raised |-> "ValueError"]
                ELSE IF kind \notin QL_DEBUGGER
                THEN [trace |-> <<>>, raised |-> "QlErrorOutput"]
                ELSE IF dbg = "ok"
                THEN [trace |-> << <<"ql_debugger", kind>> >>, raised |-> None]
                ELSE [trace |-> << <<"ql_debugger", kind>> >>, raised |-> "QlErrorOutput"]
           p == IF d.raised # None
                THEN [mem |-> mem, trace |-> d.trace, raised |-> d.raised]
                ELSE enable_bin_patch([mem |-> mem, trace |-> d.trace, raised |-> None],
                                      patch_bin, loadbase)
       IN  /\ mem' = p.mem
           /\ raised' = p.raised
           /\ IF p.raised = None
              THEN /\ run_trace' = Append(p.trace, <<"runner">>)
                   /\ pc' = "runner"
              ELSE /\ run_trace' = p.trace
                   /\ pc' = "idle"
    /\ effects' = <<>>
    /\ UNCHANGED <<mapVars, hookVars, patch_bin, loadbase, debugger, libVars, qlVars, winVars>>

RunCalled == \E dbg \in {"ok", "KeyboardInterrupt"} : RunStart(dbg)

\* run() finishing without driving the debugger session.
RunnerReturns_NoSession ==
    /\ pc = "runner"
    /\ pc' = "idle"
    /\ run_trace' = run_trace
    /\ raised' = None
    /\ effects' = <<>>
    /\ UNCHANGED <<mapVars, hookVars, patch_bin, loadbase, debugger, mem, libVars, qlVars, winVars>>

\* The runner returns and run() finishes: with a debugger spec set, the
\* debugger session is driven to completion.
RunnerReturns ==
    /\ pc = "runner"
    /\ pc' = "idle"
    /\ run_trace' = IF debugger # NoDebugger
                    THEN Append(run_trace, <<"remotedebugsession.run">>)
                    ELSE run_trace
    /\ raised' = None
    /\ effects' = <<>>
    /\ UNCHANGED <<mapVars, hookVars, patch_bin, loadbase, debugger, mem, libVars, qlVars, winVars>>

\* While the runner drives the engine, the guest calls CorExitProcess and
\* the API hook handles the call.
CorExitProcess ==
    /\ pc = "runner"
    /\ \E exitCode \in ExitCodes :
           LET r == hook_CorExitProcess(thread_management, threads, exit_code,
                                        [exitCode |-> exitCode])
           IN  /\ threads' = r.threads
               /\ exit_code' = r.exit_code
               /\ PE_RUN' = r.PE_RUN
               /\ effects' = r.effects
               /\ raised' = r.raised
    /\ UNCHANGED <<mapVars, hooks, thread_management, internal_exception, runVars,
                   libVars, qlVars>>

\* While the runner drives the engine, the guest calls _CorExeMain and the
\* API hook handles the call.
CorExeMain ==
    /\ pc = "runner"
    /\ LET r == hook__CorExeMain(thread_management, threads, exit_code, PE_RUN, <<>>)
       IN  /\ threads' = r.threads
           /\ exit_code' = r.exit_code
           /\ PE_RUN' = r.PE_RUN
           /\ effects' = r.effects
           /\ raised' = r.raised
    /\ UNCHANGED <<mapVars, hooks, thread_management, internal_exception, runVars,
                   libVars, qlVars>>

\* ------------------------------------------- memory map registry: claims

\* The entry x covers the address a.
Covers(x, a) == x[1] <= a /\ a < x[2]

\* The set of addresses covered by the registry m.
Coverage(m) == {a \in Addr : \E i \in 1 .. Len(m) : Covers(m[i], a)}

\* The address a is covered in m by an entry with permissions p and label info.
CoveredAs(m, a, p, info) ==
    \E i \in 1 .. Len(m) : Covers(m[i], a) /\ m[i][3] = p /\ m[i][4] = info

\* C1: after any sequence of insert_map_info calls with start < end from the
\* empty registry, every entry has start < end, the entries are sorted by
\* start, and no two entries overlap.
C1_SortedDisjoint ==
    /\ \A i \in 1 .. Len(map_info) : map_info[i][1] < map_info[i][2]
    /\ \A i \in 1 .. Len(map_info), j \in 1 .. Len(map_info) :
           i < j => /\ map_info[i][1] < map_info[j][1]
                    /\ map_info[i][2] <= map_info[j][1]

\* C1 witness: a registry of three entries left by an insert that split an
\* existing entry around the new range.
C1_Witness ==
    /\ Len(map_info) = 3
    /\ map_info[1][2] = map_info[2][1]
    /\ map_info[2][2] = map_info[3][1]
    /\ map_info[1][4] = map_info[3][4]
    /\ map_info[1][4] # map_info[2][4]

\* C2: when insert_map_info(start, end, perms, label) overlaps an existing
\* entry (s, e, old_perms, old_label), the result holds the prefix [s, start)
\* and the suffix [end, e) with old_perms and old_label, and the central
\* range [start, end) with the new perms and label.
C2_SplitKeepsOldPerms ==
    \A mem_s \in Addr, mem_e \in Addr, mem_p \in Perms, mem_info \in Labels :
        mem_s < mem_e =>
            LET r == insert_map_info(map_info, mem_s, mem_e, mem_p, mem_info)
            IN  \A i \in 1 .. Len(map_info) :
                    LET x == map_info[i]
                    IN  (x[1] < mem_e /\ x[2] > mem_s) =>
                            \A a \in Addr :
                                /\ (Covers(x, a) /\ a < mem_s) => CoveredAs(r, a, x[3], x[4])
                                /\ (mem_s <= a /\ a < mem_e) => CoveredAs(r, a, mem_p, mem_info)
                                /\ (Covers(x, a) /\ a >= mem_e) => CoveredAs(r, a, x[3], x[4])

\* C3: after every insert_map_info call, for any two consecutive entries
\* either end_i < start_{i+1} or their labels differ.
C3_AdjacentCoalesced ==
    \A i \in 1 .. Len(map_info) - 1 :
        \/ map_info[i][2] < map_info[i + 1][1]
        \/ map_info[i][4] # map_info[i + 1][4]

\* C4: for every insert_map_info(start, end, perms, label) with start < end,
\* the addresses covered after the call are those covered before it together
\* with [start, end).
C4_CoverageUnion ==
    \A mem_s \in Addr, mem_e \in Addr, mem_p \in Perms, mem_info \in Labels :
        mem_s < mem_e =>
            Coverage(insert_map_info(map_info, mem_s, mem_e, mem_p, mem_info))
                = Coverage(map_info) \cup {a \in Addr : mem_s <= a /\ a < mem_e}

\* C4 witness: the registry after a range was inserted strictly inside an
\* entry that reached further on both sides, so that a prefix and a suffix of
\* the old entry had to stay covered.
C4_Witness ==
    /\ Len(map_info) = 3
    /\ map_info[1][1] = 0
    /\ map_info[1][2] = map_info[2][1]
    /\ map_info[2][2] = map_info[3][1]
    /\ map_info[3][2] = MaxAddr
    /\ map_info[1][4] = "a"
    /\ map_info[2][4] = "b"
    /\ map_info[3][4] = "a"

\* C5: insert_map_info with an empty range (start = end) leaves map_info as
\* it was.
C5_EmptyRangeIgnored == [][InsertEmptyRange => map_info' = map_info]_vars

\* ------------------------------------------------ hook bridge and stop(): claims

\* The call op is among the calls logged in es.
Called(es, op) == \E i \in 1 .. Len(es) : es[i][1] = op

\* The position of the first call op in es (0 if there is none).
FirstCall(es, op) ==
    IF Called(es, op)
    THEN CHOOSE i \in 1 .. Len(es) :
             es[i][1] = op /\ \A j \in 1 .. i - 1 : es[j][1] # op
    ELSE 0

\* C6: for every hook registration operation, the function handed to the
\* engine catches any exception the user callback raises and returns normally:
\* no exception crosses the callback boundary into the engine.  Stated for the
\* emulator states in which stop() itself cannot raise (no thread manager, or
\* one with a current thread), so that a violation is the bridge's own.
C6_NoExceptionCrossesEngine ==
    [][\A h \in hooks, e \in UserErrors :
           (/\ FireHook(h, [act |-> "raise", exc |-> e])
            /\ thread_management.active => thread_management.cur_thread # None)
           => raised' = None]_vars

\* C7: when a user callback raises e inside a bridged callback and the bridged
\* callback has returned to the engine, internal_exception holds e, the
\* engine's stop primitive was called, and with a thread manager active the
\* current guest thread is stopped with stop_event THREAD_EVENT_UNEXECPT_EVENT.
C7_RaiseRecordedAndStopped ==
    [][\A h \in hooks, e \in UserErrors :
           (/\ FireHook(h, [act |-> "raise", exc |-> e])
            /\ h.fn # "raw"
            /\ raised' = None)
           => /\ internal_exception' = e
              /\ Called(effects', "uc.emu_stop")
              /\ thread_management.active =>
                     threads'[thread_management.cur_thread] =
                         [stopped |-> TRUE, stop_event |-> THREAD_EVENT_UNEXECPT_EVENT]]_vars

\* C7 witness: with a thread manager and a current thread, a bridged callback
\* whose user callback raised has returned: the calls of the last callback are
\* the user callback and then stop(THREAD_EVENT_UNEXECPT_EVENT)'s three.
C7_Witness ==
    /\ thread_management.active
    /\ thread_management.cur_thread # None
    /\ internal_exception \in UserErrors
    /\ raised = None
    /\ Len(effects) = 4
    /\ effects[1][1] = "callback"
    /\ effects[3] = <<"td.stop_event", thread_management.cur_thread,
                      THREAD_EVENT_UNEXECPT_EVENT>>
    /\ effects[4][1] = "uc.emu_stop"

\* C8: stop() called from inside a hook callback, in any emulator state,
\* completes without raising and calls the engine's stop primitive.
C8_StopSafeFromHook ==
    [][\A h \in hooks :
           FireHook(h, [act |-> "stop", exc |-> None]) =>
               LET u == UserCallback([act |-> "stop", exc |-> None],
                                     thread_management, threads)
               IN  u.raised = None /\ Called(u.effects, "uc.emu_stop")]_vars

\* C9: stop(reason) with an active thread manager first marks the current
\* guest thread stopped and records reason as its stop_event, and only then
\* calls the engine's stop primitive; without a thread manager it only calls
\* the engine's stop primitive.  The default reason is
\* THREAD_EVENT_EXIT_GROUP_EVENT.
C9_StopOrder ==
    [][\A arg \in StopEvents \cup {NoArg} :
           Stop(arg) =>
               LET reason == IF arg = NoArg THEN THREAD_EVENT_EXIT_GROUP_EVENT ELSE arg
                   td == thread_management.cur_thread
               IN  IF ~thread_management.active
                   THEN effects' = << <<"uc.emu_stop">> >> /\ threads' = threads
                   ELSE /\ Called(effects', "uc.emu_stop") =>
                               /\ FirstCall(effects', "td.stop") > 0
                               /\ FirstCall(effects', "td.stop") < FirstCall(effects', "td.stop_event")
                               /\ FirstCall(effects', "td.stop_event") < FirstCall(effects', "uc.emu_stop")
                        /\ td # None =>
                               /\ effects' = << <<"td.stop", td>>,
                                                <<"td.stop_event", td, reason>>,
                                                <<"uc.emu_stop">> >>
                               /\ threads' = [threads EXCEPT ![td] =
                                                 [stopped |-> TRUE, stop_event |-> reason]]]_vars

\* C9 witness: stop() was called with the unexpected-event reason while a
\* thread manager was scheduling a thread, and nothing raised.
C9_Witness ==
    /\ thread_management.active
    /\ thread_management.cur_thread # None
    /\ raised = None
    /\ Len(effects) = 3
    /\ effects[1][1] = "td.stop"
    /\ effects[2] = <<"td.stop_event", thread_management.cur_thread,
                      THREAD_EVENT_UNEXECPT_EVENT>>
    /\ internal_exception = None

\* The events the registration method via is named after (the methods for
\* memory events).
NamedEvents(via) ==
    CASE via = "hook_mem_unmapped" -> UnmappedEvents
      [] via = "hook_mem_read_invalid" -> {"read_unmapped", "read_prot"}
      [] via = "hook_mem_write_invalid" -> {"write_unmapped", "write_prot"}
      [] via = "hook_mem_fetch_invalid" -> {"fetch_unmapped", "fetch_prot"}
      [] via = "hook_mem_invalid" -> UnmappedEvents \cup ProtEvents
      [] via = "hook_mem_read" -> {"read"}
      [] via = "hook_mem_write" -> {"write"}
      [] via = "hook_mem_fetch" -> {"fetch"}
      [] OTHER -> EngineEvents

\* C22: whenever the engine calls a callback registered through a memory
\* hook method, the events it makes the call on are those of the method's
\* name, all of them and no other: a hook_mem_invalid callback is called on
\* the invalid accesses and on no valid access.
C22_MemHookEventKind ==
    [][\A h \in hooks, b \in UserActs :
           (FireHook(h, b) /\ NamedEvents(h.via) # EngineEvents)
           => Fires(h.htype) = NamedEvents(h.via)]_vars

\* C23: whenever the engine calls a _callback wrapper, the wrapper calls the
\* user's callback with the user_data of the registration as the last
\* argument if that user_data is not None, falsy values included, and with
\* no user_data if it is None.
C23_UserDataForwarded ==
    [][\A h \in hooks, b \in UserActs :
           (FireHook(h, b) /\ h.fn # "raw")
           => LET call == effects'[1]
              IN  IF h.user_data # None
                  THEN call[Len(call)] = h.user_data
                  ELSE \A i \in 1 .. Len(call) : call[i] \notin UserData]_vars

\* ------------------------------------------------- patches and run(): claims

\* Byte k of pending patch i is not covered by a later pending patch.
NotOverwritten(patches, i, k) ==
    \A j \in i + 1 .. Len(patches) :
        ~(/\ patches[j][1] <= patches[i][1] + k - 1
          /\ patches[i][1] + k - 1 < patches[j][1] + Len(patches[j][2]))

\* C10: when run() invokes the runner, every pending binary patch (A, B) has
\* been written: guest memory at loadbase + A holds B wherever no later
\* pending patch covers it, and in run()'s calls the writes of all pending
\* patches, in list order, come right before the call of the runner.
C10_PatchesBeforeRunner ==
    [][(pc = "idle" /\ pc' = "runner") =>
           LET n == Len(run_trace')
               np == Len(patch_bin)
           IN  /\ n >= np + 1
               /\ run_trace'[n][1] = "runner"
               /\ \A j \in 1 .. n - 1 : run_trace'[j][1] # "runner"
               /\ \A i \in 1 .. np :
                      /\ run_trace'[n - np - 1 + i] =
                             <<"uc.mem_write", loadbase + patch_bin[i][1], patch_bin[i][2]>>
                      /\ \A k \in 1 .. Len(patch_bin[i][2]) :
                             NotOverwritten(patch_bin, i, k) =>
                                 mem'[loadbase + patch_bin[i][1] + k - 1] = patch_bin[i][2][k]]_vars

\* C10 witness: the runner was invoked after two overlapping pending patches
\* were written at a load base other than 0.
C10_Witness ==
    /\ pc = "runner"
    /\ loadbase = 1
    /\ Len(run_trace) = 3
    /\ run_trace[1] = <<"uc.mem_write", 1, <<2, 1>>>>
    /\ run_trace[2] = <<"uc.mem_write", 1, <<1>>>>
    /\ run_trace[3][1] = "runner"
    /\ mem[1] = 1
    /\ mem[2] = 1

\* C17: run() (1) parses a debugger spec that is set, the kind being gdb
\* for "ip:port", and starts the debugger bridge, (2) writes the pending
\* binary patches, (3) invokes the runner and (4) once the runner has
\* returned drives the debugger session; with no debugger spec it makes
\* neither the first nor the last call.
C17_RunOrder ==
    [][/\ (pc = "idle" /\ pc' = "runner") =>
            run_trace' =
                (IF debugger = NoDebugger THEN <<>>
                 ELSE << <<"ql_debugger",
                           IF Len(debugger) = 2 THEN "gdb" ELSE debugger[1]>> >>)
                \o [i \in 1 .. Len(patch_bin) |->
                       <<"uc.mem_write", loadbase + patch_bin[i][1], patch_bin[i][2]>>]
                \o << <<"runner">> >>
       /\ (pc = "runner" /\ pc' = "idle") =>
            run_trace' =
                run_trace \o (IF debugger = NoDebugger THEN <<>>
                              ELSE << <<"remotedebugsession.run">> >>)]_vars

\* C17 witness: a finished run() with the spec "ip:port" and a pending patch.
C17_Witness ==
    /\ pc = "idle"
    /\ debugger = <<"127.0.0.1", "9999">>
    /\ run_trace = << <<"ql_debugger", "gdb">>, <<"uc.mem_write", 1, <<1>>>>,
                      <<"runner">>, <<"remotedebugsession.run">> >>

\* The class run() raises when the remote session ends, which is also the
\* class construction raises for an invalid output.
OtherErrorKinds == {"QlErrorOutput"}

\* C18: run() with a debugger spec of an unsupported kind fails with an
\* error kind of its own, neither the one of an invalid output nor the one
\* of an ended remote session, and has then written no patch and not
\* invoked the runner.
C18_DebuggerUnsupported ==
    [][(/\ RunCalled
        /\ debugger # NoDebugger
        /\ DebuggerKind(debugger) \notin QL_DEBUGGER \cup {"ValueError"})
       => /\ raised' # None
          /\ raised' \notin OtherErrorKinds
          /\ mem' = mem
          /\ run_trace' = <<>>
          /\ pc' = "idle"]_vars

\* ------------------------------------------------ pending patches: claims

\* C11: patch(addr, bytes) with no label appends (addr, bytes) to the
\* binary-patch list and patch(addr, bytes, label) appends (addr, bytes, label)
\* to the library-patch list; either call leaves the other list and guest
\* memory as they were.
C11_PatchAppends ==
    [][/\ PatchBin =>
            /\ \E addr \in Addr, code \in Codes :
                   patch_bin' = Append(patch_bin, <<addr, code>>)
            /\ patch_lib' = patch_lib
            /\ mem' = mem
       /\ PatchLib =>
            /\ \E addr \in LibOffsets, code \in Codes, label \in {"a", "b"} :
                   patch_lib' = Append(patch_lib, <<addr, code, label>>)
            /\ patch_bin' = patch_bin
            /\ mem' = mem]_vars

\* Both lists hold a patch, the library patch with its label, and nothing
\* was written to guest memory.
C11_Witness ==
    /\ patch_bin = << <<1, <<2, 1>>>> >>
    /\ patch_lib = << <<1, <<1>>, "a">> >>
    /\ \A a \in Addr : mem[a] = 0

\* The pending binary patch p covers the address a when the image is loaded
\* at base.
PatchCovers(p, base, a) == base + p[1] <= a /\ a < base + p[1] + Len(p[2])

\* The byte the patch p puts at the address a.
PatchByte(p, base, a) == p[2][a - (base + p[1]) + 1]

\* The last of the patches of pb that covers a (0 when none does).
LastCovering(pb, base, a) ==
    LET cover == {i \in 1 .. Len(pb) : PatchCovers(pb[i], base, a)}
    IN  IF cover = {} THEN 0 ELSE CHOOSE i \in cover : \A j \in cover : j <= i

\* C24: every run() that reaches the runner has written the pending binary
\* patches in submission order and left the list as it was, so that an
\* address covered by several patches holds the byte of the one submitted
\* last when the runner starts; the runner's return leaves the list too, and
\* the next run() writes the same patches again in the same order.
C24_PatchesReapplied ==
    [][/\ (pc = "idle" /\ pc' = "runner") =>
            /\ patch_bin' = patch_bin
            /\ SelectSeq(run_trace', LAMBDA e : e[1] = "uc.mem_write") =
                   [i \in 1 .. Len(patch_bin) |->
                       <<"uc.mem_write", loadbase + patch_bin[i][1], patch_bin[i][2]>>]
            /\ \A a \in Addr :
                   LET i == LastCovering(patch_bin, loadbase, a)
                   IN  mem'[a] = IF i = 0 THEN mem[a]
                                 ELSE PatchByte(patch_bin[i], loadbase, a)
       /\ (pc = "runner" /\ pc' = "idle") => patch_bin' = patch_bin]_vars

\* C24 witness: the runner starts in a second run().  The first run() wrote
\* the only patch then pending with the image at 0 (address 0 still holds its
\* byte); the image then moved to 1, a patch overlapping the first was
\* submitted, and the second run() wrote the first patch again and the second
\* one over it.
C24_Witness ==
    /\ pc = "runner"
    /\ loadbase = 1
    /\ patch_bin = << <<0, <<1>>>>, <<0, <<2, 1>>>> >>
    /\ run_trace = << <<"uc.mem_write", 1, <<1>>>>, <<"uc.mem_write", 1, <<2, 1>>>>,
                      <<"runner">> >>
    /\ mem[0] = 1 /\ mem[1] = 2 /\ mem[2] = 1

\* The library patch p has a mapped label in the registry m.
LibMapped(m, p) == get_lib_base(m, p[3]) # -1

\* The write enable_lib_patch is to issue for the library patch p.
LibWrite(m, p) == <<"uc.mem_write", get_lib_base(m, p[3]) + p[1], p[2]>>

\* C12: enable_lib_patch skips every library patch whose label has no mapped
\* entry: when the patches with a mapped label can all be written, the
\* writes issued are exactly theirs, at base_of(label) + addr and in list
\* order, and no error is raised.
C12_UnmappedSkipped ==
    [][EnableLibPatch =>
        LET IsMapped(p) == LibMapped(map_info, p)
            mapped == SelectSeq(patch_lib, IsMapped)
            writes == [i \in 1 .. Len(mapped) |-> LibWrite(map_info, mapped[i])]
        IN  (\A i \in 1 .. Len(writes) : MemWritable(writes[i][2], writes[i][3]))
            => /\ raised' = None
               /\ effects' = writes]_vars

\* Byte k of library patch i is not written again by a later patch with a
\* mapped label.
NotOverwrittenLib(m, patches, i, k) ==
    LET target == LibWrite(m, patches[i])[2] + k - 1
    IN  \A j \in (i + 1) .. Len(patches) :
            LibMapped(m, patches[j]) =>
                LET w == LibWrite(m, patches[j])
                IN  ~(w[2] <= target /\ target < w[2] + Len(w[3]))

\* C13: once the label of a pending library patch (A, B, L) is mapped at
\* base S, enable_lib_patch leaves B at S + A, whatever other library patches
\* are pending (patches against unmapped labels included), provided the
\* patches with a mapped label can all be written and no later one of them
\* covers the byte.
C13_LatePatchApplied ==
    [][EnableLibPatch =>
        \A i \in 1 .. Len(patch_lib) :
            (/\ LibMapped(map_info, patch_lib[i])
             /\ \A j \in 1 .. Len(patch_lib) :
                    LibMapped(map_info, patch_lib[j]) =>
                        MemWritable(LibWrite(map_info, patch_lib[j])[2], patch_lib[j][2]))
            => \A k \in 1 .. Len(patch_lib[i][2]) :
                   NotOverwrittenLib(map_info, patch_lib, i, k) =>
                       mem'[LibWrite(map_info, patch_lib[i])[2] + k - 1] = patch_lib[i][2][k]]_vars

\* ------------------------------------- packing, dprint, constructor: claims

\* verbose is an integer in 0..99 and, above 0, output is debug or dump.
VerboseOk(verbose, output) ==
    /\ verbose.type = "int"
    /\ verbose.val \in 0 .. 99
    /\ verbose.val > 0 => output \in {QL_OUT_DEBUG, QL_OUT_DUMP}

\* C14: a construction that succeeds, and a dprint call that returns, had
\* verbose an integer in 0..99 with output debug or dump when verbose > 0;
\* dprint rejects anything else with QlErrorOutput.
C14_VerboseEnforced ==
    /\ ql.stage = "ready" /\ result.op = None => VerboseOk(ql.verbose, ql.output)
    /\ result.op = "dprint" =>
           IF VerboseOk(ql.verbose, ql.output)
           THEN result.raised = None
           ELSE result.raised = "QlErrorOutput"

\* C15: pack(word) gives archbit / 8 bytes, most significant first iff
\* archendian is big, at both widths.
C15_PackEndian ==
    (/\ result.op = "pack"
     /\ ql.archbit \in {32, 64}
     /\ ql.archendian \in {QL_ENDIAN_EL, QL_ENDIAN_EB})
    => /\ result.raised = None
       /\ result.val = IF ql.archendian = QL_ENDIAN_EB
                       THEN BytesBE(result.arg, ql.archbit \div 8)
                       ELSE BytesLE(result.arg, ql.archbit \div 8)

\* C16: at the widths 32 and 64 and in either byte order unpack(pack(x)) is
\* x; at any other width pack and unpack raise.
C16_RoundTrip ==
    /\ (/\ result.op = "unpack"
        /\ ql.archbit \in {32, 64}
        /\ ql.archendian \in {QL_ENDIAN_EL, QL_ENDIAN_EB})
       => /\ result.raised = None
          /\ result.val = result.arg
    /\ (/\ result.op \in {"pack", "unpack_bytes"}
        /\ ql.archbit \notin {32, 64})
       => result.raised # None

\* C16 witness: 0x01020304 packed and unpacked at 32 bits, big-endian.
C16_Witness ==
    /\ result.op = "unpack"
    /\ ql.archbit = 32
    /\ ql.archendian = QL_ENDIAN_EB
    /\ result.arg = 16909060
    /\ result.val = 16909060

\* C19: after a successful construction archendian is defined: little for
\* an architecture outside QL_ENDINABLE, and for one inside big iff
\* bigendian is true, in image mode and in shellcode mode.
C19_EndianResolved ==
    ql.stage = "ready" =>
        ql.archendian = IF ql.arch \in QL_ENDINABLE /\ ql.bigendian
                        THEN QL_ENDIAN_EB
                        ELSE QL_ENDIAN_EL

\* C20: a construction in image mode with filename[0] or rootfs missing on
\* the host, rootfs not given included, fails with QlErrorFileNotFound
\* before the architecture is validated and before the loader.
C20_FileNotFound ==
    (/\ ql.stage # "none"
     /\ ql.shellcoder = None
     /\ ql.filename # None
     /\ ~(os_path_exists(ql.filename) /\ ql.rootfs # None /\ os_path_exists(ql.rootfs)))
    => /\ ql.stage = "failed"
       /\ raised = "QlErrorFileNotFound"
       /\ init_trace = <<>>

\* C21: a construction in image mode with filename[0] and rootfs on the
\* host, a valid explicit ostype (the instance's ostype is a known tag and
\* no detection ran) and an archtype that is a valid one or not given does
\* not fail with QlErrorArch.
C21_ImageModeArch ==
    (/\ ql.stage # "none"
     /\ ql.shellcoder = None
     /\ ql.filename # None /\ os_path_exists(ql.filename)
     /\ ql.rootfs # None /\ os_path_exists(ql.rootfs)
     /\ ql.ostype \in QL_OS
     /\ \A i \in 1 .. Len(init_trace) : init_trace[i] # "ql_checkostype"
     /\ ql.archtype \in {None, "str:x8664", "str:mips32", "QL_X86"})
    => raised # "QlErrorArch"

\* ------------------------------------------------ Windows API hooks: claims

NextMap == InsertMapInfo

NextMapAny == InsertMapInfo \/ InsertEmptyRange

\* The hook bridge, stop() and the thread manager, with run() entering and
\* leaving the runner.
NextHook ==
    \/ HookCode \/ HookIntr \/ HookBlock
    \/ HookMemUnmapped \/ HookMemReadInvalid \/ HookMemWriteInvalid
    \/ HookMemFetchInvalid \/ HookMemInvalid \/ HookAddress
    \/ HookMemRead \/ HookMemWrite \/ HookMemFetch \/ HookInsn
    \/ EngineFiresHook
    \/ StopCalled
    \/ ThreadManagerCreated \/ ThreadScheduled
    \/ RunCalled \/ RunnerReturns

\* The patch set and run().
NextRun == PatchBin \/ ImageLoaded \/ SetDebugger \/ RunCalled \/ RunnerReturns

NextPatch == PatchBin \/ PatchLib

NextLib == PatchLib \/ LibraryMapped \/ EnableLibPatch

NextPack == Pack \/ Unpack \/ UnpackBytes

NextInit == Construct \/ Dprint

\* A Windows image running: API calls are dispatched to their hooks from a
\* code hook, and the guest calls the mscoree functions.
NextWin ==
    \/ HookCode
    \/ ThreadManagerCreated \/ ThreadScheduled
    \/ RunCalled \/ RunnerReturns \/ EngineFiresHook
    \/ CorExitProcess \/ CorExeMain

Next ==
    \/ NextMapAny \/ NextHook \/ NextRun \/ NextPatch \/ NextLib \/ NextPack \/ NextInit
    \/ NextWin

SpecMap == Init /\ [][NextMap]_vars

SpecMapAny == Init /\ [][NextMapAny]_vars

SpecHook == Init /\ [][NextHook]_vars

SpecRun == Init /\ [][NextRun]_vars

SpecPatch == Init /\ [][NextPatch]_vars

SpecLib == Init /\ [][NextLib]_vars

SpecPack == InitPack /\ [][NextPack]_vars

SpecInit == InitCtor /\ [][NextInit]_vars

SpecWin == Init /\ [][NextWin]_vars

Spec == Init /\ [][Next]_vars

====
